---- MODULE Spec2Model ----
(***************************************************************************)
(* Model of the browser-automation repository:                             *)
(*   - AIMatcher.findBestMatch            (src/helpers/aiMatcher.js)       *)
(*   - CaptchaHandler.handleCaptcha, detectCaptchaType and                 *)
(*     waitForManualCompletion         (src/web/helpers/captchaHandler.js) *)
(*   - CaptchaHandler.handleRecaptchaV2ImageChallenge, learnFromAttempt,   *)
(*     handleSliderPuzzle, simulateHumanDrag and simulateHumanSlider       *)
(*   - ServerWorkflowExecutor.executeWorkflow                              *)
(*       (src/web/src/server/execution/ServerWorkflowExecutor.ts)          *)
(* Texts are sequences of one-character strings; time is in seconds.       *)
(***************************************************************************)
EXTENDS Integers, Sequences, FiniteSets, TLC

VARIABLES
    \* ---- AIMatcher.findBestMatch ----
    mPc,          \* "idle" | "awaiting" (LLM request in flight) | "done"
    elements,     \* the candidate element handles passed by the caller
    response,     \* completion.choices[0].message.content
    mResult,      \* what the call returned or threw
    llmCalls,     \* number of chat.completions.create requests issued
    \* ---- CaptchaHandler.handleCaptcha ----
    hPc,            \* "idle" | "loop" | "solving" | "manual" | "done"
    now,            \* Date.now(), in seconds since the call
    page,           \* the DOM facts the handler queries, and the login button
    successRates,   \* this.successRates, in thousandths
    captchaType,    \* const captchaType (line 66)
    lastClassified, \* the result of the latest detectCaptchaType call
    startTime,      \* const startTime (line 82)
    attempt,        \* the loop variable
    solver,         \* the solver method dispatched by the latest attempt
    dispatchCount,  \* number of solver dispatches of this call
    lastOutcome,    \* how the latest attempt ended
    cleared,        \* the login button was enabled at some moment of the call
    manualStart,    \* startTime of waitForManualCompletion, -1 before it
    hResult,        \* "none" | "true" | "false": what handleCaptcha returned
    afterAttempt,   \* what the loop did between the latest attempt and the next
    \* ---- CaptchaHandler.handleRecaptchaV2ImageChallenge ----
    iPc,            \* "idle" | "analyzing" | "clicking" | "verifying" | "done"
    totalTiles,     \* gridInfo.totalTiles
    content,        \* response.choices[0].message.content of the vision call
    solution,       \* what analyzeImageChallenge returned
    clickPos,       \* position of the for-of loop in solution
    clicks,         \* the clicks performed in the challenge frame, in order
    iResult,        \* "none" | "true" | "false": what the solver returned
    \* ---- CaptchaHandler.detectCaptchaType / learnFromAttempt ----
    classifyCalls,  \* number of detectCaptchaType calls made by the caller
    learnCalls,     \* number of learnFromAttempt calls
    pageMutated,    \* the page changed since the latest detectCaptchaType
    ratesTouched,   \* learnFromAttempt ran since the latest detectCaptchaType
    \* ---- additions to the processes above ----
    visionError,    \* the vision request of analyzeImageChallenge was rejected
    handleCalls,    \* number of handleCaptcha calls made on this handler
    \* ---- the eight detectors of one detectCaptchaType call ----
    dPc,              \* "idle" | "detecting" | "done"
    detectorResults,  \* the Promise.all slots: a type, "null" or "pending"
    \* ---- CaptchaHandler.handleSliderPuzzle ----
    sPc,            \* "idle" | "sweeping" | "sliding" | "done"
    sliderEnv,      \* the page's slider, and whether OPENAI_API_KEY is set
    swept,          \* the percentages passed to simulateHumanSlider, in order
    sResult,        \* "none" | "true" | "false": what the solver returned
    \* ---- simulateHumanDrag / simulateHumanSlider ----
    gPc,            \* "idle" | "running" | "returned"
    gesture,        \* which simulator runs, and the number of its loop steps
    gIdx,           \* number of pointer operations performed by the call
    mouseDown,      \* the browser's mouse button is held
    \* ---- ServerWorkflowExecutor.executeWorkflow ----
    wPc,            \* "idle" | "executing" | "done"
    workflow,       \* the nodes and edges passed by the caller
    executionOrder, \* what buildExecutionOrder returned
    wIdx,           \* position of the for-of loop in executionOrder
    nodeStatus,     \* the latest updateNodeStatus of every node
    wResult         \* "none" | "true" | "false": ExecutionResult.success

mvars == <<mPc, elements, response, mResult, llmCalls>>

hvars == <<hPc, now, page, successRates, captchaType, lastClassified, startTime,
           attempt, solver, dispatchCount, lastOutcome, cleared, manualStart, hResult,
           afterAttempt>>

ivars == <<iPc, totalTiles, content, solution, clickPos, clicks, iResult>>

cvars == <<classifyCalls, learnCalls, pageMutated, ratesTouched>>

dvars == <<dPc, detectorResults>>

svars == <<sPc, sliderEnv, swept, sResult>>

gvars == <<gPc, gesture, gIdx, mouseDown>>

wvars == <<wPc, workflow, executionOrder, wIdx, nodeStatus, wResult>>

\* the variables of the processes added to the first four
xvars == <<visionError, handleCalls, dvars, svars, gvars, wvars>>

vars == <<mPc, elements, response, mResult, llmCalls,
          hPc, now, page, successRates, captchaType, lastClassified, startTime,
          attempt, solver, dispatchCount, lastOutcome, cleared, manualStart, hResult,
          afterAttempt,
          iPc, totalTiles, content, solution, clickPos, clicks, iResult,
          classifyCalls, learnCalls, pageMutated, ratesTouched,
          visionError, handleCalls, dPc, detectorResults,
          sPc, sliderEnv, swept, sResult, gPc, gesture, gIdx, mouseDown,
          wPc, workflow, executionOrder, wIdx, nodeStatus, wResult>>

(***************************************************************************)
(* Bounds of the model.                                                    *)
(***************************************************************************)
MaxCandidates == 3
MaxTokens == 3
\* the longest a solver call takes (page waits and LLM calls), in seconds
MaxSolverSeconds == 40
\* the most edges of a workflow
MaxEdges == 2
\* the handleCaptcha calls a caller makes after the first has returned
MaxRepeatCalls == 1
\* the longest vision response, in tokens of ImageVocabulary
MaxImageTokens == 3
\* the detectCaptchaType and learnFromAttempt calls a caller makes
MaxDetectCalls == 2
MaxLearnCalls == 4

(***************************************************************************)
(* Characters and the character classes of JavaScript regular expressions. *)
(***************************************************************************)
UpperCase == <<"A","B","C","D","E","F","G","H","I","J","K","L","M",
               "N","O","P","Q","R","S","T","U","V","W","X","Y","Z">>
LowerCase == <<"a","b","c","d","e","f","g","h","i","j","k","l","m",
               "n","o","p","q","r","s","t","u","v","w","x","y","z">>
Digits == <<"0","1","2","3","4","5","6","7","8","9">>

Range(s) == {s[i] : i \in 1..Len(s)}

UpperSet == Range(UpperCase)
LowerSet == Range(LowerCase)
DigitSet == Range(Digits)
WordSet == UpperSet \cup LowerSet \cup DigitSet \cup {"_"}
SpaceSet == {" ", "\n", "\t"}

LowerOf == [c \in UpperSet |-> LowerCase[CHOOSE i \in 1..Len(UpperCase) : UpperCase[i] = c]]
ValueOf == [c \in DigitSet |-> (CHOOSE i \in 1..Len(Digits) : Digits[i] = c) - 1]

\* the /i flag: characters are compared after case folding
ToLower(c) == IF c \in UpperSet THEN LowerOf[c] ELSE c

\* \d
IsDigit(c) == c \in DigitSet

DigitValue(c) == ValueOf[c]

\* \s
IsSpace(c) == c \in SpaceSet

\* \w  (the complement decides \b)
IsWordChar(c) == c \in WordSet

(***************************************************************************)
(* Regular-expression matching as String.prototype.match performs it:      *)
(* the leftmost position at which the whole pattern matches.  A pattern of *)
(* findBestMatch is a sequence of literals, each followed by \s*, ending   *)
(* in the capture group (\d+).                                             *)
(***************************************************************************)
\* the literal lit (lower case) occurs at position i of text, case folded
LiteralAt(text, i, lit) ==
    /\ i + Len(lit) - 1 <= Len(text)
    /\ \A j \in 1..Len(lit) : ToLower(text[i + j - 1]) = lit[j]

\* \s* is greedy; what follows it is never a space, so it takes every space
RECURSIVE SkipSpaces(_, _)
SkipSpaces(text, i) ==
    IF i <= Len(text) /\ IsSpace(text[i]) THEN SkipSpaces(text, i + 1) ELSE i

\* (\d+) is greedy: the last position of the digit run that starts at i
RECURSIVE DigitsEnd(_, _)
DigitsEnd(text, i) ==
    IF i + 1 <= Len(text) /\ IsDigit(text[i + 1]) THEN DigitsEnd(text, i + 1) ELSE i

\* the pattern matched from position i: 0, or the position of its capture
RECURSIVE MatchFrom(_, _, _)
MatchFrom(text, i, lits) ==
    IF lits = <<>>
    THEN IF i <= Len(text) /\ IsDigit(text[i]) THEN i ELSE 0
    ELSE IF LiteralAt(text, i, Head(lits))
         THEN MatchFrom(text, SkipSpaces(text, i + Len(Head(lits))), Tail(lits))
         ELSE 0

\* response.match(pattern): the capture of the leftmost match, <<>> if none
RECURSIVE RegexMatch(_, _, _)
RegexMatch(text, i, lits) ==
    IF i > Len(text) THEN <<>>
    ELSE LET p == MatchFrom(text, i, lits)
         IN  IF p # 0 THEN SubSeq(text, p, DigitsEnd(text, p))
             ELSE RegexMatch(text, i + 1, lits)

\* response.match(/\b(\d+)\b/): the leftmost digit run with a word boundary
\* on both sides (a shorter run never ends at a boundary)
RECURSIVE BareNumberMatch(_, _)
BareNumberMatch(text, i) ==
    IF i > Len(text) THEN <<>>
    ELSE LET e == DigitsEnd(text, i)
         IN  IF /\ IsDigit(text[i])
                /\ (i = 1 \/ ~IsWordChar(text[i - 1]))
                /\ (e = Len(text) \/ ~IsWordChar(text[e + 1]))
             THEN SubSeq(text, i, e)
             ELSE BareNumberMatch(text, i + 1)

\* parseInt of a non-empty digit string
RECURSIVE parseInt(_)
parseInt(ds) ==
    IF ds = <<>> THEN 0
    ELSE 10 * parseInt(SubSeq(ds, 1, Len(ds) - 1)) + DigitValue(ds[Len(ds)])

\* the patterns array with the Element pattern tried before the Index pattern
patternsElementFirst ==
    << << <<"e","l","e","m","e","n","t">> >>,
       << <<"i","n","d","e","x",":">> >>,
       << <<"c","h","o","o","s","e">>, <<"e","l","e","m","e","n","t">> >>,
       << <<"s","e","l","e","c","t">>, <<"e","l","e","m","e","n","t">> >> >>

\* the patterns array, in its order
patterns ==
    << << <<"i","n","d","e","x",":">> >>,
       << <<"e","l","e","m","e","n","t">> >>,
       << <<"c","h","o","o","s","e">>, <<"e","l","e","m","e","n","t">> >>,
       << <<"s","e","l","e","c","t">>, <<"e","l","e","m","e","n","t">> >> >>

\* for (const pattern of patterns) { ...; break; }   starting at pattern k
RECURSIVE TryPatterns(_, _)
TryPatterns(text, k) ==
    IF k > Len(patterns) THEN -1
    ELSE LET match == RegexMatch(text, 1, patterns[k])
         IN  IF match # <<>> THEN parseInt(match) ELSE TryPatterns(text, k + 1)

\* bestMatchIndex with the bare number tried before the labelled patterns
bestMatchIndexNumberFirst(text) ==
    LET numberMatch == BareNumberMatch(text, 1)
    IN  IF numberMatch # <<>> THEN parseInt(numberMatch) ELSE TryPatterns(text, 1)

\* bestMatchIndex initialised to 0 instead of the sentinel -1
bestMatchIndexDefaultZero(text) ==
    LET fromPatterns == TryPatterns(text, 1)
    IN  IF fromPatterns = -1
        THEN LET numberMatch == BareNumberMatch(text, 1)
             IN  IF numberMatch # <<>> THEN parseInt(numberMatch) ELSE 0
        ELSE fromPatterns

\* let bestMatchIndex = -1; patterns; then any number in the response
bestMatchIndex(text) ==
    LET fromPatterns == TryPatterns(text, 1)
    IN  IF fromPatterns = -1
        THEN LET numberMatch == BareNumberMatch(text, 1)
             IN  IF numberMatch # <<>> THEN parseInt(numberMatch) ELSE -1
        ELSE fromPatterns

NoResult == [status |-> "none", index |-> -1, element |-> "none", error |-> "none"]
ErrorResult(kind) == [status |-> "error", index |-> -1, element |-> "none", error |-> kind]

\* the body of the try block once the completion has arrived
findBestMatch(text, elems) ==
    LET idx == bestMatchIndex(text)
    IN  IF idx = -1 \/ idx >= Len(elems)
        THEN ErrorResult("Could not determine best matching element")
        ELSE [status |-> "ok", index |-> idx, element |-> elems[idx + 1], error |-> "none"]

(***************************************************************************)
(* The inputs: candidate lists and LLM response texts.                     *)
(***************************************************************************)
ElementHandle(i) == "el" \o ToString(i)

Candidates(n) == [i \in 1..n |-> ElementHandle(i - 1)]

Vocabulary ==
    { <<"I","n","d","e","x",":">>,
      <<"E","l","e","m","e","n","t">>,
      <<"c","h","o","o","s","e">>,
      <<" ">>, <<"-">>, <<"x">>,
      <<"0">>, <<"1">>, <<"7">> }

RECURSIVE Flatten(_)
Flatten(toks) == IF toks = <<>> THEN <<>> ELSE Head(toks) \o Flatten(Tail(toks))

TokenTexts == {Flatten(toks) : toks \in UNION {[1..k -> Vocabulary] : k \in 0..MaxTokens}}

\* "I think it's Element 1 because it says Post"
ScenarioElement1 ==
    <<"I"," ","t","h","i","n","k"," ","i","t","'","s"," ",
      "E","l","e","m","e","n","t"," ","1"," ",
      "b","e","c","a","u","s","e"," ","i","t"," ","s","a","y","s"," ","P","o","s","t">>

\* "Index: -1\nExplanation: none fits"
ScenarioMinusOne ==
    <<"I","n","d","e","x",":"," ","-","1","\n",
      "E","x","p","l","a","n","a","t","i","o","n",":"," ","n","o","n","e">>

\* "Select element 2"
ScenarioSelect == <<"S","e","l","e","c","t"," ","e","l","e","m","e","n","t"," ","2">>

\* "None of the elements match."
ScenarioProse ==
    <<"N","o","n","e"," ","o","f"," ","t","h","e"," ",
      "e","l","e","m","e","n","t","s"," ","m","a","t","c","h",".">>

\* "Index: 1\nExplanation: fits better than Index: 0"
ScenarioTwoIndexLabels ==
    <<"I","n","d","e","x",":"," ","1","\n",
      "E","x","p","l","a","n","a","t","i","o","n",":"," ",
      "f","i","t","s"," ","b","e","t","t","e","r"," ","t","h","a","n"," ",
      "I","n","d","e","x",":"," ","0">>

\* "Element 0 is a toggle. Index: 1"
ScenarioElementThenIndex ==
    <<"E","l","e","m","e","n","t"," ","0"," ","i","s"," ","a"," ",
      "t","o","g","g","l","e","."," ","I","n","d","e","x",":"," ","1">>

\* "2 buttons fit; Index: 1"
ScenarioNumberThenIndex ==
    <<"2"," ","b","u","t","t","o","n","s"," ","f","i","t",";"," ",
      "I","n","d","e","x",":"," ","1">>

ScenarioTexts ==
    {ScenarioElement1, ScenarioMinusOne, ScenarioSelect, ScenarioProse,
     ScenarioTwoIndexLabels, ScenarioElementThenIndex, ScenarioNumberThenIndex}

Responses == TokenTexts \cup ScenarioTexts

(***************************************************************************)
(* AIMatcher.findBestMatch as a process: the call issues one LLM request,  *)
(* then the completion arrives (or the request fails) and is parsed.       *)
(***************************************************************************)
MatcherIdle ==
    /\ mPc = "idle"
    /\ elements = <<>>
    /\ response = <<>>
    /\ mResult = NoResult
    /\ llmCalls = 0

\* findBestMatch(instruction, elements, browserHelper) up to the await of
\* openai.chat.completions.create
CallFindBestMatch ==
    /\ mPc = "idle"
    /\ \E n \in 0..MaxCandidates : elements' = Candidates(n)
    /\ llmCalls' = llmCalls + 1
    /\ mPc' = "awaiting"
    /\ UNCHANGED <<response, mResult>>
    /\ UNCHANGED <<hvars, ivars, cvars, xvars>>

\* the completion arrives and is parsed
CompletionArrives ==
    /\ mPc = "awaiting"
    /\ \E text \in Responses :
          /\ response' = text
          /\ mResult' = findBestMatch(text, elements)
    /\ mPc' = "done"
    /\ UNCHANGED <<elements, llmCalls>>
    /\ UNCHANGED <<hvars, ivars, cvars, xvars>>

\* the catch block issuing the request again instead of rethrowing
CompletionFailsRetry ==
    /\ mPc = "awaiting"
    /\ llmCalls < 3
    /\ llmCalls' = llmCalls + 1
    /\ UNCHANGED <<mPc, elements, response, mResult>>
    /\ UNCHANGED <<hvars, ivars, cvars, xvars>>

\* the request rejects: catch (error) { console.error(...); throw error; }
CompletionFails ==
    /\ mPc = "awaiting"
    /\ mResult' = ErrorResult("transport")
    /\ mPc' = "done"
    /\ UNCHANGED <<elements, response, llmCalls>>
    /\ UNCHANGED <<hvars, ivars, cvars, xvars>>

MatchNext == CallFindBestMatch \/ CompletionArrives \/ CompletionFails


(***************************************************************************)
(* CaptchaHandler: types, success rates and the policy numbers of          *)
(* handleCaptcha and waitForManualCompletion (times in seconds).           *)
(***************************************************************************)
CAPTCHA_TYPES ==
    {"recaptcha-v2-checkbox", "recaptcha-v2-image", "recaptcha-v2-invisible",
     "recaptcha-v3", "hcaptcha", "hcaptcha-image", "funcaptcha", "math-captcha",
     "text-captcha", "puzzle-jigsaw", "puzzle-slider", "puzzle-rotation",
     "cloudflare-turnstile", "custom-captcha"}

InitialSuccessRates ==
    [t \in CAPTCHA_TYPES |->
        CASE t = "recaptcha-v2-checkbox"  -> 980
          [] t = "math-captcha"           -> 950
          [] t = "recaptcha-v2-image"     -> 900
          [] t = "recaptcha-v2-invisible" -> 880
          [] t = "puzzle-slider"          -> 850
          [] t = "text-captcha"           -> 850
          [] t = "recaptcha-v3"           -> 820
          [] t = "puzzle-jigsaw"          -> 800
          [] t = "cloudflare-turnstile"   -> 780
          [] t = "hcaptcha"               -> 750
          [] t = "hcaptcha-image"         -> 720
          [] t = "funcaptcha"             -> 700
          [] t = "puzzle-rotation"        -> 650
          [] t = "custom-captcha"         -> 500]

\* one attempt more than the policy
maxAttemptsPlusOne == 5 + 1

maxAttempts == 5
retryInterval == 25
totalTimeout == 120
settleDelay == 2
errorWait == 5
manualTimeout == 300
manualPollInterval == 2

(***************************************************************************)
(* The page: the DOM facts that the detectors, the solvers' checks and the *)
(* manual-completion poll query.                                           *)
(***************************************************************************)
EmptyDom ==
    [ anchorIframe         |-> FALSE,     \* iframe[title*="reCAPTCHA"]
      recaptchaWidget      |-> FALSE,     \* .g-recaptcha, #recaptcha, [data-sitekey], div[class*="recaptcha"]
      challengeIframe      |-> "absent",  \* iframe[title*="recaptcha challenge"]: absent | hidden | visible
      challengeSrcRecaptcha |-> FALSE,    \* that iframe also matches iframe[src*="recaptcha"]
      grecaptchaEnterprise |-> FALSE,     \* window.grecaptcha.enterprise
      invisibleWidget      |-> FALSE,     \* .g-recaptcha[data-size="invisible"], ...
      hcaptcha             |-> "absent",  \* absent | checkbox | challenge  (iframe[src*="hcaptcha"])
      funcaptcha           |-> FALSE,
      mathText             |-> FALSE,
      captchaImage         |-> FALSE,
      puzzle               |-> "absent",  \* absent | slider | rotation | jigsaw
      turnstile            |-> FALSE,
      interstitial         |-> FALSE,     \* title "Just a moment" / "Checking your browser"
      genericCaptcha       |-> FALSE ]    \* a visible div[class*="captcha"], ...

\* a reCAPTCHA widget whose challenge iframe is still hidden
CheckboxDom ==
    [EmptyDom EXCEPT !.anchorIframe = TRUE, !.recaptchaWidget = TRUE,
                     !.challengeIframe = "hidden", !.challengeSrcRecaptcha = TRUE,
                     !.genericCaptcha = TRUE]

\* a math question with a generic captcha container
MathDom == [EmptyDom EXCEPT !.mathText = TRUE, !.genericCaptcha = TRUE]

Doms == {EmptyDom, CheckboxDom, MathDom}

Pages == [dom : Doms, loginEnabled : BOOLEAN]

(***************************************************************************)
(* The detectors and detectCaptchaType.                                    *)
(***************************************************************************)
\* detectRecaptcha looking for the challenge iframe before the checkbox and
\* without the visibility test
detectRecaptchaChallengeFirst(dom) ==
    IF dom.grecaptchaEnterprise THEN "recaptcha-v3"
    ELSE IF dom.invisibleWidget THEN "recaptcha-v2-invisible"
    ELSE IF dom.challengeIframe # "absent" THEN "recaptcha-v2-image"
    ELSE IF dom.anchorIframe \/ dom.recaptchaWidget THEN "recaptcha-v2-checkbox"
    ELSE "null"

detectRecaptcha(dom) ==
    IF dom.grecaptchaEnterprise THEN "recaptcha-v3"
    ELSE IF dom.invisibleWidget THEN "recaptcha-v2-invisible"
    ELSE IF \/ dom.anchorIframe
            \/ dom.recaptchaWidget
            \/ (dom.challengeIframe # "absent" /\ dom.challengeSrcRecaptcha)
         THEN "recaptcha-v2-checkbox"
    ELSE IF dom.challengeIframe = "visible" THEN "recaptcha-v2-image"
    ELSE "null"

detectHCaptcha(dom) ==
    IF dom.hcaptcha = "challenge" THEN "hcaptcha-image"
    ELSE IF dom.hcaptcha = "checkbox" THEN "hcaptcha"
    ELSE "null"

detectFunCaptcha(dom) == IF dom.funcaptcha THEN "funcaptcha" ELSE "null"

detectMathCaptcha(dom) == IF dom.mathText THEN "math-captcha" ELSE "null"

detectTextCaptcha(dom) == IF dom.captchaImage THEN "text-captcha" ELSE "null"

detectPuzzleCaptcha(dom) ==
    CASE dom.puzzle = "slider"   -> "puzzle-slider"
      [] dom.puzzle = "rotation" -> "puzzle-rotation"
      [] dom.puzzle = "jigsaw"   -> "puzzle-jigsaw"
      [] OTHER                   -> "null"

detectCloudflareType(dom) ==
    IF dom.turnstile \/ dom.interstitial THEN "cloudflare-turnstile" ELSE "null"

detectCustomCaptcha(dom) == IF dom.genericCaptcha THEN "custom-captcha" ELSE "null"

\* (this.successRates[t] || 0.5)
RateOf(rates, t) == IF t \in DOMAIN rates /\ rates[t] # 0 THEN rates[t] ELSE 500

\* a sort that puts x in front of the elements of equal rate
RECURSIVE InsertByRateTiesLast(_, _, _)
InsertByRateTiesLast(rates, x, sorted) ==
    IF sorted = <<>> THEN <<x>>
    ELSE IF RateOf(rates, Head(sorted)) > RateOf(rates, x)
         THEN <<Head(sorted)>> \o InsertByRateTiesLast(rates, x, Tail(sorted))
         ELSE <<x>> \o sorted

\* Array.prototype.sort is stable: x goes behind every element whose rate
\* is not below its own
RECURSIVE InsertByRate(_, _, _)
InsertByRate(rates, x, sorted) ==
    IF sorted = <<>> THEN <<x>>
    ELSE IF RateOf(rates, Head(sorted)) >= RateOf(rates, x)
         THEN <<Head(sorted)>> \o InsertByRate(rates, x, Tail(sorted))
         ELSE <<x>> \o sorted

RECURSIVE SortByRate(_, _)
SortByRate(rates, seq) ==
    IF seq = <<>> THEN <<>>
    ELSE InsertByRate(rates, seq[Len(seq)], SortByRate(rates, SubSeq(seq, 1, Len(seq) - 1)))

IsDetection(r) == r # "null"

\* lines 194-212: what detectCaptchaType returns for the array that
\* Promise.all resolved to
prioritized(detectionResults, rates) ==
    LET validDetections == SelectSeq(detectionResults, IsDetection)
    IN  IF Len(validDetections) = 0 THEN "null"
        ELSE IF Len(validDetections) = 1 THEN validDetections[1]
        ELSE SortByRate(rates, validDetections)[1]

\* lines 182-191: the promise at position i of the array given to Promise.all
detector(i, dom) ==
    CASE i = 1 -> detectRecaptcha(dom)
      [] i = 2 -> detectHCaptcha(dom)
      [] i = 3 -> detectFunCaptcha(dom)
      [] i = 4 -> detectMathCaptcha(dom)
      [] i = 5 -> detectTextCaptcha(dom)
      [] i = 6 -> detectPuzzleCaptcha(dom)
      [] i = 7 -> detectCloudflareType(dom)
      [] i = 8 -> detectCustomCaptcha(dom)

detectCaptchaType(dom, rates) ==
    prioritized([i \in 1..8 |-> detector(i, dom)], rates)

\* an update that lowers a rate without the Math.max
learnFromAttemptNoFloor(rates, type, success) ==
    IF type \notin DOMAIN rates THEN rates
    ELSE [rates EXCEPT ![type] =
            IF success THEN (IF @ + 10 < 990 THEN @ + 10 ELSE 990) ELSE @ - 5]

\* Math.min(0.99, rate + 0.01) and Math.max(0.10, rate - 0.005), in
\* thousandths
learnFromAttempt(rates, type, success) ==
    IF type \notin DOMAIN rates THEN rates
    ELSE [rates EXCEPT ![type] =
            IF success
            THEN (IF @ + 10 < 990 THEN @ + 10 ELSE 990)
            ELSE (IF @ - 5 > 100 THEN @ - 5 ELSE 100)]

\* isLoginButtonEnabled()
isLoginButtonEnabled(p) == p.loginEnabled

\* the query of waitForManualCompletion
captchaStillPresent(p) ==
    \/ p.dom.anchorIframe
    \/ p.dom.challengeIframe # "absent"
    \/ p.dom.hcaptcha # "absent"

(***************************************************************************)
(* The solvers.  Each catches its own exceptions and returns false.  pre   *)
(* is the page when the solver starts, post the page when it checks.       *)
(***************************************************************************)
\* switch (captchaType) { case ...: solved = await this.handleX(); }
SolverFor(type) ==
    CASE type = "recaptcha-v2-checkbox"  -> "handleRecaptchaV2Checkbox"
      [] type = "recaptcha-v2-image"     -> "handleRecaptchaV2ImageChallenge"
      [] type = "recaptcha-v2-invisible" -> "handleRecaptchaV2Invisible"
      [] type = "recaptcha-v3"           -> "handleRecaptchaV3"
      [] type = "hcaptcha"               -> "handleHCaptcha"
      [] type = "hcaptcha-image"         -> "handleHCaptchaImage"
      [] type = "funcaptcha"             -> "handleFunCaptcha"
      [] type = "math-captcha"           -> "handleMathCaptcha"
      [] type = "text-captcha"           -> "handleTextCaptcha"
      [] type = "puzzle-jigsaw"          -> "handleJigsawPuzzle"
      [] type = "puzzle-slider"          -> "handleSliderPuzzle"
      [] type = "puzzle-rotation"        -> "handleRotationPuzzle"
      [] type = "cloudflare-turnstile"   -> "handleCloudflareTurnstile"
      [] OTHER                           -> "handleCustomCaptcha"

\* returns true once verify was clicked and the challenge iframe is gone or
\* the anchor iframe exists; false on every earlier exit
handleRecaptchaV2ImageChallenge(pre, post) ==
    {FALSE} \cup
    IF /\ pre.dom.challengeIframe = "visible"
       /\ (post.dom.challengeIframe = "absent" \/ post.dom.anchorIframe)
    THEN {TRUE} ELSE {}

\* needs the anchor iframe to click; then the image challenge if its iframe
\* became visible, else the state of the login button
handleRecaptchaV2Checkbox(pre, post) ==
    {FALSE} \cup
    IF ~pre.dom.anchorIframe THEN {}
    ELSE IF post.dom.challengeIframe = "visible"
         THEN handleRecaptchaV2ImageChallenge(post, post)
         ELSE IF isLoginButtonEnabled(post) THEN {TRUE} ELSE {}

\* the values the solver can return
SolverReturns(name, pre, post) ==
    CASE name = "handleRecaptchaV2Checkbox" -> handleRecaptchaV2Checkbox(pre, post)
      [] name = "handleRecaptchaV2ImageChallenge" -> handleRecaptchaV2ImageChallenge(pre, post)
      [] name \in {"handleRecaptchaV2Invisible", "handleRecaptchaV3", "handleCustomCaptcha"} ->
            {isLoginButtonEnabled(post)}
      [] name = "handleHCaptcha" ->
            {FALSE} \cup IF pre.dom.hcaptcha # "absent" /\ isLoginButtonEnabled(post)
                         THEN {TRUE} ELSE {}
      [] name \in {"handleHCaptchaImage", "handleFunCaptcha"} -> {FALSE}
      [] name = "handleMathCaptcha" -> {FALSE} \cup IF pre.dom.mathText THEN {TRUE} ELSE {}
      [] name = "handleTextCaptcha" -> {FALSE} \cup IF pre.dom.captchaImage THEN {TRUE} ELSE {}
      [] name = "handleJigsawPuzzle" -> {FALSE} \cup IF pre.dom.puzzle # "absent" THEN {TRUE} ELSE {}
      [] name = "handleSliderPuzzle" -> {FALSE} \cup IF pre.dom.puzzle = "slider" THEN {TRUE} ELSE {}
      [] name = "handleRotationPuzzle" ->
            {FALSE} \cup IF pre.dom.puzzle = "rotation" /\ isLoginButtonEnabled(post)
                         THEN {TRUE} ELSE {}
      [] name = "handleCloudflareTurnstile" -> {~post.dom.interstitial}

\* try { ... } catch (error) { console.error(...); return false; } in a solver
SolverOutcomes(name, pre, post, raised) ==
    IF raised THEN {FALSE} ELSE SolverReturns(name, pre, post)

SolverSeconds == {0, MaxSolverSeconds}


(***************************************************************************)
(* handleCaptcha and waitForManualCompletion as a process.                 *)
(***************************************************************************)
\* no image challenge is being solved
ImageIdle ==
    /\ iPc = "idle"
    /\ totalTiles = 0
    /\ content = <<>>
    /\ solution = <<>>
    /\ clickPos = 1
    /\ clicks = <<>>
    /\ iResult = "none"
    /\ visionError = FALSE

\* no caller has used detectCaptchaType or learnFromAttempt directly
ClassifierIdle ==
    /\ classifyCalls = 0
    /\ learnCalls = 0
    /\ pageMutated = FALSE
    /\ ratesTouched = FALSE

\* no detectCaptchaType call is between its first and its last detector
DetectorsIdle ==
    /\ dPc = "idle"
    /\ detectorResults = <<>>

\* no pointer gesture runs
PointerIdle ==
    /\ gPc = "idle"
    /\ gesture = [kind |-> "none", steps |-> 0, target |-> 0]
    /\ gIdx = 0
    /\ mouseDown = FALSE

\* no slider puzzle is being solved
SliderIdle ==
    /\ sPc = "idle"
    /\ sliderEnv = [aiKey |-> FALSE, width |-> 0, solvedAt |-> 0,
                    slider |-> FALSE, container |-> FALSE]
    /\ swept = <<>>
    /\ sResult = "none"

\* no workflow is being executed
WorkflowIdle ==
    /\ wPc = "idle"
    /\ workflow = [nodes |-> <<>>, edges |-> <<>>]
    /\ executionOrder = <<>>
    /\ wIdx = 1
    /\ nodeStatus = <<>>
    /\ wResult = "none"

\* what the loop did after an attempt: the seconds it waited and whether it
\* called detectCaptchaType again
Between(seconds, redetected) == [waited |-> seconds, reclassified |-> redetected]

HandlerIdle ==
    /\ hPc = "idle"
    /\ afterAttempt = Between(0, FALSE)
    /\ now = 0
    /\ successRates = InitialSuccessRates
    /\ captchaType = "null"
    /\ lastClassified = "null"
    /\ startTime = 0
    /\ attempt = 0
    /\ solver = "none"
    /\ dispatchCount = 0
    /\ lastOutcome = "none"
    /\ manualStart = -1
    /\ hResult = "none"
    /\ handleCalls = 0

\* a detection that answers only the first call of a caller
ClassifyFirstCallOnly(p) ==
    IF classifyCalls = 0 THEN detectCaptchaType(p.dom, successRates) ELSE "null"

\* await this.detectCaptchaType() on page p
Classify(p) == detectCaptchaType(p.dom, successRates)

\* if (!captchaType) with the test always false
IsNoneNever(type) == FALSE

\* if (!captchaType)
IsNone(type) == type = "null"

\* switch (captchaType): the variable the dispatch reads
SwitchOperand == captchaType

\* the loop head without the total-timeout check
LoopContinuesNoDeadline == attempt <= maxAttempts

\* the for condition and the total-timeout check at the head of the loop
LoopContinues == attempt <= maxAttempts /\ ~(now - startTime > totalTimeout)

\* if (attempt < maxAttempts && Date.now() - startTime < totalTimeout - retryInterval)
WaitsBeforeRetry(t) == attempt < maxAttempts /\ t - startTime < totalTimeout - retryInterval

\* the catch block rethrowing instead of going on
AfterExceptionRethrow == "done"

\* catch (error) { ...; if (attempt < maxAttempts) await waitForTimeout(5000); }
\* the control state after an exception in the try block
AfterException == "loop"

\* lines 55-82: settle delay, first classification, `return true` when none
HandleCaptchaStart ==
    /\ hPc = "idle"
    /\ \E p \in Pages :
          /\ page' = p
          /\ cleared' = (cleared \/ p.loginEnabled)
          /\ captchaType' = Classify(p)
          /\ lastClassified' = Classify(p)
    /\ now' = now + settleDelay
    /\ IF IsNone(captchaType')
       THEN hPc' = "done" /\ hResult' = "true" /\ UNCHANGED <<startTime, attempt>>
       ELSE hPc' = "loop" /\ hResult' = hResult /\ startTime' = now' /\ attempt' = 1
    /\ UNCHANGED <<successRates, solver, dispatchCount, lastOutcome, manualStart,
                   afterAttempt>>
    /\ UNCHANGED <<xvars, mvars, ivars, cvars>>

\* lines 84-143: the loop head passes and the solver of the switch is called
Dispatch ==
    /\ hPc = "loop"
    /\ LoopContinues
    /\ solver' = SolverFor(SwitchOperand)
    /\ dispatchCount' = dispatchCount + 1
    /\ hPc' = "solving"
    /\ UNCHANGED <<now, page, successRates, captchaType, lastClassified, startTime,
                   attempt, lastOutcome, cleared, manualStart, hResult, afterAttempt>>
    /\ UNCHANGED <<xvars, mvars, ivars, cvars>>

\* lines 145-148: the solver returned true
AttemptSolved ==
    /\ hPc = "solving"
    /\ \E d \in SolverSeconds, post \in Pages :
          /\ TRUE \in SolverOutcomes(solver, page, post, FALSE)
          /\ now' = now + d
          /\ page' = post
          /\ cleared' = (cleared \/ post.loginEnabled)
    /\ lastOutcome' = "solved"
    /\ hResult' = "true"
    /\ hPc' = "done"
    /\ UNCHANGED <<successRates, captchaType, lastClassified, startTime, attempt,
                   solver, dispatchCount, manualStart, afterAttempt>>
    /\ UNCHANGED <<xvars, mvars, ivars, cvars>>

\* lines 150-160: the solver returned false (also after catching its own
\* exception); wait and re-classify when attempts and time remain
AttemptFailed ==
    /\ hPc = "solving"
    /\ \E d \in SolverSeconds, post \in Pages, raised \in BOOLEAN :
          /\ FALSE \in SolverOutcomes(solver, page, post, raised)
          /\ lastOutcome' = "failed"
          /\ IF WaitsBeforeRetry(now + d)
             THEN \E p \in Pages :
                     /\ now' = now + d + retryInterval
                     /\ page' = p
                     /\ cleared' = (cleared \/ post.loginEnabled \/ p.loginEnabled)
                     /\ lastClassified' = Classify(p)
                     /\ afterAttempt' = Between(retryInterval, TRUE)
             ELSE /\ now' = now + d
                  /\ page' = post
                  /\ cleared' = (cleared \/ post.loginEnabled)
                  /\ lastClassified' = lastClassified
                  /\ afterAttempt' = Between(0, FALSE)
    /\ attempt' = attempt + 1
    /\ hPc' = "loop"
    /\ UNCHANGED <<successRates, captchaType, startTime, solver, dispatchCount,
                   manualStart, hResult>>
    /\ UNCHANGED <<xvars, mvars, ivars, cvars>>

\* lines 162-167: an exception escaped into the try block of the attempt
AttemptThrows ==
    /\ hPc = "solving"
    /\ \E d \in SolverSeconds, post \in Pages :
          /\ now' = now + d + (IF attempt < maxAttempts THEN errorWait ELSE 0)
          /\ page' = post
          /\ cleared' = (cleared \/ post.loginEnabled)
    /\ lastOutcome' = "threw"
    /\ afterAttempt' = Between(IF attempt < maxAttempts THEN errorWait ELSE 0, FALSE)
    /\ attempt' = attempt + 1
    /\ hPc' = AfterException
    /\ hResult' = (IF AfterException = "loop" THEN hResult ELSE "threw")
    /\ UNCHANGED <<successRates, captchaType, lastClassified, startTime, solver,
                   dispatchCount, manualStart>>
    /\ UNCHANGED <<xvars, mvars, ivars, cvars>>

\* lines 86-89, 170-171, 1735-1738: the loop ends, manual completion starts
FallBackToManual ==
    /\ hPc = "loop"
    /\ ~LoopContinues
    /\ manualStart' = now
    /\ hPc' = "manual"
    /\ UNCHANGED <<now, page, successRates, captchaType, lastClassified, startTime,
                   attempt, solver, dispatchCount, lastOutcome, cleared, hResult,
                   afterAttempt>>
    /\ UNCHANGED <<xvars, mvars, ivars, cvars>>

\* lines 1740-1749: the poll finds no challenge markup
ManualCompleted ==
    /\ hPc = "manual"
    /\ now - manualStart < manualTimeout
    /\ ~captchaStillPresent(page)
    /\ hResult' = "true"
    /\ hPc' = "done"
    /\ UNCHANGED <<now, page, successRates, captchaType, lastClassified, startTime,
                   attempt, solver, dispatchCount, lastOutcome, cleared, manualStart,
                   afterAttempt>>
    /\ UNCHANGED <<xvars, mvars, ivars, cvars>>

\* lines 1740-1752: the poll finds the markup and waits two seconds
ManualWait ==
    /\ hPc = "manual"
    /\ now - manualStart < manualTimeout
    /\ captchaStillPresent(page)
    /\ now' = now + manualPollInterval
    /\ \E p \in Pages :
          /\ page' = p
          /\ cleared' = (cleared \/ p.loginEnabled)
    /\ UNCHANGED <<hPc, successRates, captchaType, lastClassified, startTime,
                   attempt, solver, dispatchCount, lastOutcome, manualStart, hResult,
                   afterAttempt>>
    /\ UNCHANGED <<xvars, mvars, ivars, cvars>>

\* lines 1754-1755: the manual timeout has passed
ManualTimedOut ==
    /\ hPc = "manual"
    /\ ~(now - manualStart < manualTimeout)
    /\ hResult' = "false"
    /\ hPc' = "done"
    /\ UNCHANGED <<now, page, successRates, captchaType, lastClassified, startTime,
                   attempt, solver, dispatchCount, lastOutcome, cleared, manualStart,
                   afterAttempt>>
    /\ UNCHANGED <<xvars, mvars, ivars, cvars>>

\* the state handleCaptcha starts from when it is called again: its locals
\* are new, the page is as the previous call left it
CalledAgain ==
    /\ hPc' = "idle"
    /\ now' = 0
    /\ cleared' = page.loginEnabled
    /\ captchaType' = "null"
    /\ lastClassified' = "null"
    /\ startTime' = 0
    /\ attempt' = 0
    /\ solver' = "none"
    /\ dispatchCount' = 0
    /\ lastOutcome' = "none"
    /\ manualStart' = -1
    /\ hResult' = "none"
    /\ afterAttempt' = Between(0, FALSE)
    /\ handleCalls' = handleCalls + 1
    /\ UNCHANGED page
    /\ UNCHANGED <<visionError, dvars, svars, gvars, wvars>>
    /\ UNCHANGED <<mvars, ivars, cvars>>

\* a handler that feeds the outcome of a call to learnFromAttempt
HandleCaptchaAgainLearning ==
    /\ hPc = "done"
    /\ handleCalls < MaxRepeatCalls
    /\ successRates' = learnFromAttempt(successRates, captchaType, hResult = "true")
    /\ CalledAgain

\* lines 55-66: the caller awaits handleCaptcha() again on the same handler;
\* no line of handleCaptcha or of a solver writes a field of the handler
HandleCaptchaAgain ==
    /\ hPc = "done"
    /\ handleCalls < MaxRepeatCalls
    /\ successRates' = successRates
    /\ CalledAgain

LoopNext ==
    \/ HandleCaptchaAgain
    \/ HandleCaptchaStart
    \/ Dispatch
    \/ AttemptSolved
    \/ AttemptFailed
    \/ AttemptThrows
    \/ FallBackToManual
    \/ ManualCompleted
    \/ ManualWait
    \/ ManualTimedOut

\* the handler is called on a page whose login button it finds as it is
LoopInit ==
    /\ MatcherIdle
    /\ HandlerIdle
    /\ ImageIdle
    /\ ClassifierIdle
    /\ DetectorsIdle /\ PointerIdle /\ SliderIdle /\ WorkflowIdle
    /\ page \in Pages
    /\ cleared = page.loginEnabled

SpecLoop == LoopInit /\ [][LoopNext]_vars

\* the matcher is used on its own; the handler stays idle
MatchInit ==
    /\ MatcherIdle
    /\ HandlerIdle
    /\ ImageIdle
    /\ ClassifierIdle
    /\ DetectorsIdle /\ PointerIdle /\ SliderIdle /\ WorkflowIdle
    /\ page = [dom |-> EmptyDom, loginEnabled |-> TRUE]
    /\ cleared = TRUE

SpecMatch == MatchInit /\ [][MatchNext]_vars

(***************************************************************************)
(* analyzeImageChallenge: the vision response is trimmed, stripped of      *)
(* markdown fences and parsed as JSON; a response that is not JSON falls   *)
(* back to its digit runs.                                                 *)
(***************************************************************************)
\* String.prototype.trim
RECURSIVE TrimStart(_)
TrimStart(text) ==
    IF text # <<>> /\ IsSpace(Head(text)) THEN TrimStart(Tail(text)) ELSE text

RECURSIVE TrimEnd(_)
TrimEnd(text) ==
    IF text # <<>> /\ IsSpace(text[Len(text)])
    THEN TrimEnd(SubSeq(text, 1, Len(text) - 1))
    ELSE text

trim(text) == TrimEnd(TrimStart(text))

\* the literal lit occurs at position i of text (case sensitive)
ExactAt(text, i, lit) ==
    /\ i + Len(lit) - 1 <= Len(text)
    /\ \A j \in 1..Len(lit) : text[i + j - 1] = lit[j]

\* String.prototype.includes
includes(text, lit) == \E i \in 1..Len(text) : ExactAt(text, i, lit)

\* the grave accent (U+0060), the character of a markdown fence
Backtick == "grave"

Fence == <<Backtick, Backtick, Backtick>>
FenceJson == <<Backtick, Backtick, Backtick, "j","s","o","n">>

\* text.replace(/lit\s*/g, ''), from position i on
RECURSIVE RemoveAll(_, _, _)
RemoveAll(text, i, lit) ==
    IF i > Len(text) THEN <<>>
    ELSE IF ExactAt(text, i, lit)
         THEN RemoveAll(text, SkipSpaces(text, i + Len(lit)), lit)
         ELSE <<text[i]>> \o RemoveAll(text, i + 1, lit)

\* lines 1072-1081
cleanedContent(raw) ==
    LET trimmed == trim(raw)
    IN  IF includes(trimmed, Fence)
        THEN trim(RemoveAll(RemoveAll(trimmed, 1, FenceJson), 1, Fence))
        ELSE trimmed

\* JSON.parse on the values the responses can spell: integers and arrays.
\* A parse result says whether a value was read, where it ends, and what
\* it is.
ParseError == [ok |-> FALSE, next |-> 0, array |-> FALSE, val |-> 0, items |-> <<>>]

\* a JSON number: -? (0 | [1-9][0-9]*)
ParseNumber(text, i) ==
    LET negative == i <= Len(text) /\ text[i] = "-"
        s == IF negative THEN i + 1 ELSE i
    IN  IF s > Len(text) \/ ~IsDigit(text[s]) THEN ParseError
        ELSE LET e == IF text[s] = "0" THEN s ELSE DigitsEnd(text, s)
                 v == parseInt(SubSeq(text, s, e))
             IN  [ok |-> TRUE, next |-> e + 1, array |-> FALSE,
                  val |-> IF negative THEN 0 - v ELSE v, items |-> <<>>]

RECURSIVE ParseValue(_, _)
RECURSIVE ParseElements(_, _, _)
\* a JSON value that starts at position i
ParseValue(text, i) ==
    IF i > Len(text) THEN ParseError
    ELSE IF text[i] = "["
         THEN LET j == SkipSpaces(text, i + 1)
              IN  IF j <= Len(text) /\ text[j] = "]"
                  THEN [ok |-> TRUE, next |-> j + 1, array |-> TRUE, val |-> 0, items |-> <<>>]
                  ELSE ParseElements(text, j, <<>>)
         ELSE ParseNumber(text, i)

\* the elements of an array from position i on; acc holds those read
ParseElements(text, i, acc) ==
    LET v == ParseValue(text, i)
    IN  IF ~v.ok THEN ParseError
        ELSE LET j == SkipSpaces(text, v.next)
                 read == Append(acc, [number |-> ~v.array, val |-> v.val])
             IN  IF j > Len(text) THEN ParseError
                 ELSE IF text[j] = ","
                      THEN ParseElements(text, SkipSpaces(text, j + 1), read)
                      ELSE IF text[j] = "]"
                           THEN [ok |-> TRUE, next |-> j + 1, array |-> TRUE,
                                 val |-> 0, items |-> read]
                           ELSE ParseError

\* JSON.parse(text): the whole text is one value
JSONParse(text) ==
    LET v == ParseValue(text, SkipSpaces(text, 1))
    IN  IF v.ok /\ SkipSpaces(text, v.next) > Len(text) THEN v ELSE ParseError

\* solution.filter(index => typeof index === 'number' && index >= 0 &&
\*                          index < gridInfo.totalTiles)
validSolution(items, tiles) ==
    LET kept == SelectSeq(items, LAMBDA x : x.number /\ x.val >= 0 /\ x.val < tiles)
    IN  [p \in 1..Len(kept) |-> kept[p].val]

\* cleanedContent.match(/\d+/g).map(num => parseInt(num))
RECURSIVE numbers(_, _)
numbers(text, i) ==
    IF i > Len(text) THEN <<>>
    ELSE IF IsDigit(text[i])
         THEN <<parseInt(SubSeq(text, i, DigitsEnd(text, i)))>>
                  \o numbers(text, DigitsEnd(text, i) + 1)
         ELSE numbers(text, i + 1)

\* numbers.filter(index => index >= 0 && index < gridInfo.totalTiles)
extractedSolution(text, tiles) ==
    SelectSeq(numbers(text, 1), LAMBDA x : x >= 0 /\ x < tiles)

\* lines 1072-1122: the indices returned for the raw response
analyzeImageChallenge(raw, tiles) ==
    LET cleaned == cleanedContent(raw)
        parsed == JSONParse(cleaned)
    IN  IF parsed.ok
        THEN IF parsed.array THEN validSolution(parsed.items, tiles) ELSE <<>>
        ELSE extractedSolution(cleaned, tiles)

(***************************************************************************)
(* The vision responses and the grids.                                     *)
(***************************************************************************)
\* tiles.length of the 3x3 and of the 4x4 grid
GridSizes == {9, 16}

ImageVocabulary ==
    { <<"[">>, <<"]">>, <<",">>, <<"-">>, <<"x">>, <<"0">>, <<"4">>, <<"9">> }

ImageTokenTexts ==
    {Flatten(toks) : toks \in UNION {[1..k -> ImageVocabulary] : k \in 0..MaxImageTokens}}

\* "[0, 4]"
ScenarioZeroFour == <<"[","0",","," ","4","]">>

\* "[0, 4]" on a line of its own inside a markdown json fence
ScenarioFenced ==
    <<Backtick, Backtick, Backtick, "j","s","o","n","\n",
      "[","0",","," ","4","]","\n", Backtick, Backtick, Backtick>>

\* "[0, 16, -1, 4]"
ScenarioOutOfRange == <<"[","0",","," ","1","6",","," ","-","1",","," ","4","]">>

\* "Tiles: -1, 4"
ScenarioProseMinusOne == <<"T","i","l","e","s",":"," ","-","1",","," ","4">>

\* "No squares match"
ScenarioNoSquares ==
    <<"N","o"," ","s","q","u","a","r","e","s"," ","m","a","t","c","h">>

\* "[[0], 4]"
ScenarioNested == <<"[","[","0","]",","," ","4","]">>

\* "[0, 0]"
ScenarioDuplicate == <<"[","0",","," ","0","]">>

ImageScenarioTexts ==
    {ScenarioZeroFour, ScenarioFenced, ScenarioOutOfRange, ScenarioProseMinusOne,
     ScenarioNoSquares, ScenarioNested, ScenarioDuplicate}

ImageResponses == ImageTokenTexts \cup ImageScenarioTexts

(***************************************************************************)
(* handleRecaptchaV2ImageChallenge as a process.                           *)
(***************************************************************************)
\* a visible image challenge next to its checkbox widget
ImageDom ==
    [EmptyDom EXCEPT !.anchorIframe = TRUE, !.recaptchaWidget = TRUE,
                     !.challengeIframe = "visible", !.challengeSrcRecaptcha = TRUE,
                     !.genericCaptcha = TRUE]

\* a challenge iframe without the checkbox iframe
ChallengeOnlyDom == [EmptyDom EXCEPT !.challengeIframe = "visible"]

\* the pages the solver can find when it checks the outcome
AfterVerifyDoms == {ImageDom, CheckboxDom, ChallengeOnlyDom, EmptyDom}

TileClick(index) == [target |-> "tile", index |-> index]
VerifyClick == [target |-> "verify", index |-> -1]

\* if (!solution || solution.length === 0) with the test always false
HasNoTilesNever(s) == FALSE

\* if (!solution || solution.length === 0)
HasNoTiles(s) == Len(s) = 0

\* lines 970-983
isSolved(dom) == dom.challengeIframe = "absent" \/ dom.anchorIframe

\* lines 706-856: the steps before the vision call; any of them can end
\* the solver with false
StartImageChallenge ==
    /\ iPc = "idle"
    /\ \E ready \in BOOLEAN, n \in GridSizes :
          IF ready
          THEN /\ totalTiles' = n
               /\ iPc' = "analyzing"
               /\ iResult' = iResult
          ELSE /\ totalTiles' = totalTiles
               /\ iPc' = "done"
               /\ iResult' = "false"
    /\ UNCHANGED <<content, solution, clickPos, clicks>>
    /\ UNCHANGED <<xvars, mvars, hvars, cvars>>

\* lines 858-865: the vision response arrives and is analysed
AnalysisArrives ==
    /\ iPc = "analyzing"
    /\ \E raw \in ImageResponses :
          /\ content' = raw
          /\ solution' = analyzeImageChallenge(raw, totalTiles)
    /\ IF HasNoTiles(solution')
       THEN iPc' = "done" /\ iResult' = "false"
       ELSE iPc' = "clicking" /\ iResult' = iResult
    /\ UNCHANGED <<totalTiles, clickPos, clicks>>
    /\ UNCHANGED <<xvars, mvars, hvars, cvars>>

\* lines 1123-1126 and 860-863: the vision request fails, the analysis
\* returns []
AnalysisFails ==
    /\ iPc = "analyzing"
    /\ visionError' = TRUE
    /\ solution' = <<>>
    /\ IF HasNoTiles(solution')
       THEN iPc' = "done" /\ iResult' = "false"
       ELSE iPc' = "clicking" /\ iResult' = iResult
    /\ UNCHANGED <<totalTiles, content, clickPos, clicks>>
    /\ UNCHANGED <<handleCalls, dvars, svars, gvars, wvars>>
    /\ UNCHANGED <<mvars, hvars, cvars>>

\* lines 869-928: one iteration of the loop over solution; the three
\* selection methods click the tile at imageIndex or all fail
ClickTile ==
    /\ iPc = "clicking"
    /\ clickPos <= Len(solution)
    /\ \E clicked \in BOOLEAN :
          clicks' = IF clicked THEN Append(clicks, TileClick(solution[clickPos]))
                    ELSE clicks
    /\ clickPos' = clickPos + 1
    /\ UNCHANGED <<iPc, totalTiles, content, solution, iResult>>
    /\ UNCHANGED <<xvars, mvars, hvars, cvars>>

\* lines 930-964: after the loop the verify button is clicked, or not found
ClickVerify ==
    /\ iPc = "clicking"
    /\ clickPos > Len(solution)
    /\ \E verifyClicked \in BOOLEAN :
          IF verifyClicked
          THEN /\ clicks' = Append(clicks, VerifyClick)
               /\ iPc' = "verifying"
               /\ iResult' = iResult
          ELSE /\ clicks' = clicks
               /\ iPc' = "done"
               /\ iResult' = "false"
    /\ UNCHANGED <<totalTiles, content, solution, clickPos>>
    /\ UNCHANGED <<xvars, mvars, hvars, cvars>>

\* lines 966-991: the outcome check four seconds after verify
CheckSolved ==
    /\ iPc = "verifying"
    /\ \E dom \in AfterVerifyDoms, enabled \in BOOLEAN :
          /\ page' = [dom |-> dom, loginEnabled |-> enabled]
          /\ cleared' = (cleared \/ enabled)
          /\ iResult' = IF isSolved(dom) THEN "true" ELSE "false"
    /\ iPc' = "done"
    /\ UNCHANGED <<totalTiles, content, solution, clickPos, clicks>>
    /\ UNCHANGED <<hPc, now, successRates, captchaType, lastClassified, startTime,
                   attempt, solver, dispatchCount, lastOutcome, manualStart, hResult,
                   afterAttempt>>
    /\ UNCHANGED <<xvars, mvars, cvars>>

ImageNext ==
    \/ StartImageChallenge
    \/ AnalysisArrives
    \/ AnalysisFails
    \/ ClickTile
    \/ ClickVerify
    \/ CheckSolved

\* the solver is called on a page that shows the image challenge
ImageInit ==
    /\ MatcherIdle
    /\ HandlerIdle
    /\ ImageIdle
    /\ ClassifierIdle
    /\ DetectorsIdle /\ PointerIdle /\ SliderIdle /\ WorkflowIdle
    /\ page = [dom |-> ImageDom, loginEnabled |-> FALSE]
    /\ cleared = FALSE

SpecImage == ImageInit /\ [][ImageNext]_vars

(***************************************************************************)
(* detectCaptchaType and learnFromAttempt used by a caller: the page can   *)
(* change between calls, and learnFromAttempt nudges the success rates.    *)
(***************************************************************************)
\* a reCAPTCHA Enterprise widget: checkbox, hidden challenge iframe and
\* window.grecaptcha.enterprise
EnterpriseCheckboxDom == [CheckboxDom EXCEPT !.grecaptchaEnterprise = TRUE]

\* a reCAPTCHA widget of invisible size with its hidden challenge iframe
InvisibleDom == [CheckboxDom EXCEPT !.invisibleWidget = TRUE]

\* a reCAPTCHA checkbox and a math question on one page
CheckboxMathDom == [CheckboxDom EXCEPT !.mathText = TRUE]

\* <div class="slider-captcha"><img ...></div>
TextSliderDom ==
    [EmptyDom EXCEPT !.captchaImage = TRUE, !.puzzle = "slider", !.genericCaptcha = TRUE]

ClassifyDoms ==
    {EmptyDom, CheckboxDom, ImageDom, ChallengeOnlyDom, EnterpriseCheckboxDom,
     InvisibleDom, MathDom, CheckboxMathDom, TextSliderDom}

ClassifyPages == [dom : ClassifyDoms, loginEnabled : {FALSE}]

\* the types callers report outcomes for; "unknown" has no success rate
LearnTypes == {"recaptcha-v2-checkbox", "math-captcha", "puzzle-slider", "unknown"}

\* the detection of src/helpers/captchaHandler.js (one evaluate call)
detectCaptchaTypeLegacy(dom) ==
    IF \/ dom.anchorIframe
       \/ dom.recaptchaWidget
       \/ dom.invisibleWidget
       \/ (dom.challengeIframe # "absent" /\ dom.challengeSrcRecaptcha)
    THEN "recaptcha-v2-checkbox"
    ELSE IF dom.challengeIframe # "absent" THEN "recaptcha-v2-image"
    ELSE IF dom.hcaptcha # "absent" THEN "hcaptcha"
    ELSE IF dom.genericCaptcha \/ dom.captchaImage THEN "generic"
    ELSE "null"

\* a caller awaits detectCaptchaType()
CallDetectCaptchaType ==
    /\ hPc = "idle"
    /\ classifyCalls < MaxDetectCalls
    /\ lastClassified' = Classify(page)
    /\ classifyCalls' = classifyCalls + 1
    /\ pageMutated' = FALSE
    /\ ratesTouched' = FALSE
    /\ UNCHANGED learnCalls
    /\ UNCHANGED <<hPc, now, page, successRates, captchaType, startTime, attempt,
                   solver, dispatchCount, lastOutcome, cleared, manualStart, hResult,
                   afterAttempt>>
    /\ UNCHANGED <<xvars, mvars, ivars>>

\* the page changes between two calls
PageMutates ==
    /\ hPc = "idle"
    /\ \E p \in ClassifyPages :
          /\ p # page
          /\ page' = p
    /\ pageMutated' = TRUE
    /\ UNCHANGED <<classifyCalls, learnCalls, ratesTouched>>
    /\ UNCHANGED <<hPc, now, successRates, captchaType, lastClassified, startTime,
                   attempt, solver, dispatchCount, lastOutcome, cleared, manualStart,
                   hResult, afterAttempt>>
    /\ UNCHANGED <<xvars, mvars, ivars>>

\* a caller awaits learnFromAttempt(captchaType, success, timeSpent)
LearnFromAttempt ==
    /\ hPc = "idle"
    /\ learnCalls < MaxLearnCalls
    /\ \E type \in LearnTypes, success \in BOOLEAN :
          successRates' = learnFromAttempt(successRates, type, success)
    /\ learnCalls' = learnCalls + 1
    /\ ratesTouched' = TRUE
    /\ UNCHANGED <<classifyCalls, pageMutated>>
    /\ UNCHANGED <<hPc, now, page, captchaType, lastClassified, startTime, attempt,
                   solver, dispatchCount, lastOutcome, cleared, manualStart, hResult,
                   afterAttempt>>
    /\ UNCHANGED <<xvars, mvars, ivars>>

ClassifyNext ==
    \/ CallDetectCaptchaType
    \/ PageMutates
    \/ LearnFromAttempt

ClassifyInit ==
    /\ MatcherIdle
    /\ HandlerIdle
    /\ ImageIdle
    /\ ClassifierIdle
    /\ DetectorsIdle /\ PointerIdle /\ SliderIdle /\ WorkflowIdle
    /\ page \in ClassifyPages
    /\ cleared = FALSE

SpecClassify == ClassifyInit /\ [][ClassifyNext]_vars

(***************************************************************************)
(* One detectCaptchaType call with its eight detectors as promises that    *)
(* are fulfilled in any order.                                             *)
(***************************************************************************)
\* results collected in the order in which the detectors complete
resultSlotByCompletion(i, results) ==
    1 + Cardinality({k \in DOMAIN results : results[k] # "pending"})

\* Promise.all stores the value of a promise at the promise's own position
resultSlot(i, results) == i

\* lines 182-191: the eight detectors are called and Promise.all is awaited
StartDetectors ==
    /\ dPc = "idle"
    /\ dPc' = "detecting"
    /\ detectorResults' = [i \in 1..8 |-> "pending"]
    /\ UNCHANGED <<visionError, handleCalls, svars, gvars, wvars>>
    /\ UNCHANGED <<mvars, hvars, ivars, cvars>>

\* one page.evaluate of a detector returns; it reads the DOM only
DetectorCompletes ==
    /\ dPc = "detecting"
    /\ \E i \in 1..8 :
          /\ detectorResults[i] = "pending"
          /\ detectorResults' =
                [detectorResults EXCEPT ![resultSlot(i, detectorResults)] =
                    detector(i, page.dom)]
    /\ UNCHANGED <<dPc, visionError, handleCalls, svars, gvars, wvars>>
    /\ UNCHANGED <<mvars, hvars, ivars, cvars>>

\* lines 193-212: Promise.all is fulfilled and the detections are prioritised
DetectorsJoined ==
    /\ dPc = "detecting"
    /\ \A i \in 1..8 : detectorResults[i] # "pending"
    /\ lastClassified' = prioritized(detectorResults, successRates)
    /\ dPc' = "done"
    /\ UNCHANGED <<detectorResults, visionError, handleCalls, svars, gvars, wvars>>
    /\ UNCHANGED <<hPc, now, page, successRates, captchaType, startTime, attempt,
                   solver, dispatchCount, lastOutcome, cleared, manualStart, hResult,
                   afterAttempt>>
    /\ UNCHANGED <<mvars, ivars, cvars>>

DetectNext ==
    \/ StartDetectors
    \/ DetectorCompletes
    \/ DetectorsJoined

DetectInit ==
    /\ MatcherIdle
    /\ HandlerIdle
    /\ ImageIdle
    /\ ClassifierIdle
    /\ DetectorsIdle /\ PointerIdle /\ SliderIdle /\ WorkflowIdle
    /\ page \in ClassifyPages
    /\ cleared = FALSE

SpecDetect == DetectInit /\ [][DetectNext]_vars

(***************************************************************************)
(* handleSliderPuzzle with simulateHumanSlider, and simulateHumanDrag: a   *)
(* simulator call is a sequence of awaited pointer operations, each of     *)
(* which can reject.                                                       *)
(***************************************************************************)
\* const positions (line 1511)
positions == <<30, 50, 70, 80, 90>>

\* the slider of the page: the width of its bounding box, the percentage
\* at which the puzzle is solved, which elements exist, and whether
\* process.env.OPENAI_API_KEY is set
SliderEnvs ==
    [aiKey : BOOLEAN, width : {100, 300}, solvedAt : {30, 65, 70},
     slider : BOOLEAN, container : BOOLEAN]

\* parseInt of the answer to 'Return only a number between 0-100'
AiPercentages == {50, 65}

\* Math.max(5, Math.floor(Math.abs(targetX - startX) / 20)), targetX -
\* startX being sliderBounds.width * percentage / 100
sliderSteps(width, percentage) ==
    LET n == (width * percentage) \div (100 * 20)
    IN  IF n > 5 THEN n ELSE 5

\* the argument of simulateHumanSlider(sliderElement, percentage)
SliderGesture(percentage) ==
    [kind |-> "slider", steps |-> sliderSteps(sliderEnv.width, percentage),
     target |-> percentage]

\* lines 1816-1849 and 1866-1901: boundingBox(), mouse.move to the start,
\* mouse.down(), the loop of mouse.move, mouse.move to the target, mouse.up()
pointerOps(g) ==
    <<"bounds", "hover", "down">> \o [i \in 1..g.steps |-> "move"] \o <<"target", "up">>

\* the pointer operations the running or returned simulator has performed
performed == SubSeq(pointerOps(gesture), 1, gIdx)

\* a simulator call begins
Simulate(g) ==
    /\ gesture' = g
    /\ gIdx' = 0
    /\ gPc' = "running"
    /\ UNCHANGED mouseDown

\* lines 1453-1473: the elements are looked up and the container is
\* screenshotted; without them the solver returns false
CallHandleSliderPuzzle ==
    /\ sPc = "idle"
    /\ gPc = "idle"
    /\ sPc' = IF ~(sliderEnv.slider /\ sliderEnv.container) THEN "done"
              ELSE IF sliderEnv.aiKey THEN "asking" ELSE "sweeping"
    /\ sResult' = IF sPc' = "done" THEN "false" ELSE sResult
    /\ UNCHANGED <<sliderEnv, swept>>
    /\ UNCHANGED <<visionError, handleCalls, dvars, gvars, wvars>>
    /\ UNCHANGED <<mvars, hvars, ivars, cvars>>

\* lines 1474-1508: the completion arrives and simulateHumanSlider is
\* called with its percentage, or the request rejects and the catch of
\* lines 1530-1533 returns false
AiPercentageArrives ==
    /\ sPc = "asking"
    /\ \E ok \in BOOLEAN, percentage \in AiPercentages :
          IF ok
          THEN /\ Simulate(SliderGesture(percentage))
               /\ swept' = Append(swept, percentage)
               /\ sPc' = "sliding"
               /\ sResult' = sResult
          ELSE /\ sPc' = "done"
               /\ sResult' = "false"
               /\ UNCHANGED <<swept, gvars>>
    /\ UNCHANGED sliderEnv
    /\ UNCHANGED <<visionError, handleCalls, dvars, wvars>>
    /\ UNCHANGED <<mvars, hvars, ivars, cvars>>

\* lines 1510-1514: the next position of the sweep is tried
SweepPosition ==
    /\ sPc = "sweeping"
    /\ Len(swept) < Len(positions)
    /\ Simulate(SliderGesture(positions[Len(swept) + 1]))
    /\ swept' = Append(swept, positions[Len(swept) + 1])
    /\ sPc' = "sliding"
    /\ UNCHANGED <<sliderEnv, sResult>>
    /\ UNCHANGED <<visionError, handleCalls, dvars, wvars>>
    /\ UNCHANGED <<mvars, hvars, ivars, cvars>>

\* one awaited pointer operation of the simulator is performed; the page
\* enables the login button when the slider is released at the solving
\* percentage
PointerOperation ==
    /\ gPc = "running"
    /\ LET op == pointerOps(gesture)[gIdx + 1]
           solves == op = "up" /\ gesture.kind = "slider"
                        /\ gesture.target = sliderEnv.solvedAt
       IN  /\ gIdx' = gIdx + 1
           /\ mouseDown' = IF op = "down" THEN TRUE
                           ELSE IF op = "up" THEN FALSE ELSE mouseDown
           /\ gPc' = IF gIdx' = Len(pointerOps(gesture)) THEN "returned" ELSE "running"
           /\ page' = IF solves THEN [page EXCEPT !.loginEnabled = TRUE] ELSE page
           /\ cleared' = (cleared \/ solves)
    /\ UNCHANGED gesture
    /\ UNCHANGED <<hPc, now, successRates, captchaType, lastClassified, startTime,
                   attempt, solver, dispatchCount, lastOutcome, manualStart, hResult,
                   afterAttempt>>
    /\ UNCHANGED <<visionError, handleCalls, dvars, svars, wvars>>
    /\ UNCHANGED <<mvars, ivars, cvars>>

\* lines 1852-1854 and 1904-1906: a pointer operation rejects; the catch
\* logs the error and the simulator returns
PointerOperationFails ==
    /\ gPc = "running"
    /\ gPc' = "returned"
    /\ UNCHANGED <<gesture, gIdx, mouseDown>>
    /\ UNCHANGED <<visionError, handleCalls, dvars, svars, wvars>>
    /\ UNCHANGED <<mvars, hvars, ivars, cvars>>

\* lines 1515-1528: after simulateHumanSlider has returned; in the sweep
\* the login button is tested, after the loop and with an AI percentage the
\* solver returns true
SimulatorReturned ==
    /\ sPc = "sliding"
    /\ gPc = "returned"
    /\ IF sliderEnv.aiKey \/ isLoginButtonEnabled(page)
       THEN sPc' = "done" /\ sResult' = "true"
       ELSE sPc' = "sweeping" /\ sResult' = sResult
    /\ gPc' = "idle"
    /\ gIdx' = 0
    /\ gesture' = [kind |-> "none", steps |-> 0, target |-> 0]
    /\ UNCHANGED <<mouseDown, sliderEnv, swept>>
    /\ UNCHANGED <<visionError, handleCalls, dvars, wvars>>
    /\ UNCHANGED <<mvars, hvars, ivars, cvars>>

\* lines 1526-1528: every position was tried and none enabled the button
SweepExhausted ==
    /\ sPc = "sweeping"
    /\ Len(swept) = Len(positions)
    /\ sPc' = "done"
    /\ sResult' = "true"
    /\ UNCHANGED <<sliderEnv, swept>>
    /\ UNCHANGED <<visionError, handleCalls, dvars, gvars, wvars>>
    /\ UNCHANGED <<mvars, hvars, ivars, cvars>>

\* lines 1811-1829: a puzzle solver awaits simulateHumanDrag; its loop has
\* ten steps
CallSimulateHumanDrag ==
    /\ sPc = "idle"
    /\ gPc = "idle"
    /\ Simulate([kind |-> "drag", steps |-> 10, target |-> 0])
    /\ UNCHANGED <<visionError, handleCalls, dvars, svars, wvars>>
    /\ UNCHANGED <<mvars, hvars, ivars, cvars>>

SliderNext ==
    \/ CallHandleSliderPuzzle
    \/ AiPercentageArrives
    \/ SweepPosition
    \/ PointerOperation
    \/ PointerOperationFails
    \/ SimulatorReturned
    \/ SweepExhausted
    \/ CallSimulateHumanDrag

\* a page whose slider puzzle keeps the login button disabled
SliderInit ==
    /\ MatcherIdle
    /\ HandlerIdle
    /\ ImageIdle
    /\ ClassifierIdle
    /\ DetectorsIdle /\ PointerIdle /\ WorkflowIdle
    /\ sPc = "idle"
    /\ sliderEnv \in SliderEnvs
    /\ swept = <<>>
    /\ sResult = "none"
    /\ page = [dom |-> EmptyDom, loginEnabled |-> FALSE]
    /\ cleared = FALSE

SpecSlider == SliderInit /\ [][SliderNext]_vars

(***************************************************************************)
(* ServerWorkflowExecutor.executeWorkflow.  Nodes are their ids; an edge   *)
(* is <<source, target>>.                                                  *)
(***************************************************************************)
\* the ids an edge can name; 3 is not a node of the two-node workflow
EdgeIds == 1..3

RECURSIVE EdgeSeqs(_)
EdgeSeqs(n) ==
    IF n = 0 THEN {<<>>}
    ELSE EdgeSeqs(n - 1) \cup
         {Append(es, e) : es \in {x \in EdgeSeqs(n - 1) : Len(x) = n - 1},
                          e \in EdgeIds \X EdgeIds}

\* the workflows passed to executeWorkflow
Workflows == [nodes : {<<1, 2>>, <<1, 2, 3>>}, edges : EdgeSeqs(MaxEdges)]

NodeSet(nodes) == {nodes[p] : p \in 1..Len(nodes)}

\* lines 388-391: inDegree after the edges.forEach
inDegreeOf(id, edges) == Cardinality({p \in 1..Len(edges) : edges[p][2] = id})

\* adjacency.get(id): the targets of the edges leaving a node, in edge
\* order; undefined (nothing to visit) for an id that is no node
adjacent(id, nodes, edges) ==
    IF id \notin NodeSet(nodes) THEN <<>>
    ELSE LET out == SelectSeq(edges, LAMBDA e : e[1] = id)
         IN  [p \in 1..Len(out) |-> out[p][2]]

\* lines 407-414: the forEach over the neighbours of current; st is the
\* queue and the inDegree map
RECURSIVE visitNeighbors(_, _)
visitNeighbors(neighbors, st) ==
    IF neighbors = <<>> THEN st
    ELSE LET neighbor == Head(neighbors)
             newDegree == st.inDegree[neighbor] - 1
         IN  visitNeighbors(Tail(neighbors),
                [inDegree |-> [st.inDegree EXCEPT ![neighbor] = newDegree],
                 queue |-> IF newDegree = 0 THEN Append(st.queue, neighbor)
                           ELSE st.queue])

\* lines 402-415: the while loop
RECURSIVE drainQueue(_, _, _, _)
drainQueue(st, result, nodes, edges) ==
    IF st.queue = <<>> THEN result
    ELSE LET current == Head(st.queue)
         IN  drainQueue(visitNeighbors(adjacent(current, nodes, edges),
                                       [st EXCEPT !.queue = Tail(st.queue)]),
                        Append(result, current), nodes, edges)

\* lines 377-419
buildExecutionOrder(nodes, edges) ==
    LET inDegree == [id \in EdgeIds |-> inDegreeOf(id, edges)]
    IN  drainQueue([inDegree |-> inDegree,
                    queue |-> SelectSeq(nodes, LAMBDA id : inDegree[id] = 0)],
                   <<>>, nodes, edges)

\* lines 142-152: the execution order is built
ExecuteWorkflow ==
    /\ wPc = "idle"
    /\ executionOrder' = buildExecutionOrder(workflow.nodes, workflow.edges)
    /\ nodeStatus' = [id \in NodeSet(workflow.nodes) |-> "pending"]
    /\ wPc' = "executing"
    /\ UNCHANGED <<workflow, wIdx, wResult>>
    /\ UNCHANGED <<visionError, handleCalls, dvars, svars, gvars>>
    /\ UNCHANGED <<mvars, hvars, ivars, cvars>>

\* lines 155-160 and 186-236: one iteration of the loop; an id that is no
\* node is skipped, a node is executed and its failure ends the run with
\* success false (lines 171-183)
ExecuteNode ==
    /\ wPc = "executing"
    /\ wIdx <= Len(executionOrder)
    /\ LET nodeId == executionOrder[wIdx]
       IN  IF nodeId \notin NodeSet(workflow.nodes)
           THEN UNCHANGED <<nodeStatus, wPc, wResult>>
           ELSE \E ok \in BOOLEAN :
                   IF ok
                   THEN /\ nodeStatus' = [nodeStatus EXCEPT ![nodeId] = "success"]
                        /\ UNCHANGED <<wPc, wResult>>
                   ELSE /\ nodeStatus' = [nodeStatus EXCEPT ![nodeId] = "error"]
                        /\ wPc' = "done"
                        /\ wResult' = "false"
    /\ wIdx' = wIdx + 1
    /\ UNCHANGED <<workflow, executionOrder>>
    /\ UNCHANGED <<visionError, handleCalls, dvars, svars, gvars>>
    /\ UNCHANGED <<mvars, hvars, ivars, cvars>>

\* lines 162-169: the loop is over, the result has success true
WorkflowCompleted ==
    /\ wPc = "executing"
    /\ wIdx > Len(executionOrder)
    /\ wPc' = "done"
    /\ wResult' = "true"
    /\ UNCHANGED <<workflow, executionOrder, wIdx, nodeStatus>>
    /\ UNCHANGED <<visionError, handleCalls, dvars, svars, gvars>>
    /\ UNCHANGED <<mvars, hvars, ivars, cvars>>

WorkflowNext ==
    \/ ExecuteWorkflow
    \/ ExecuteNode
    \/ WorkflowCompleted

WorkflowInit ==
    /\ MatcherIdle
    /\ HandlerIdle
    /\ ImageIdle
    /\ ClassifierIdle
    /\ DetectorsIdle /\ PointerIdle /\ SliderIdle
    /\ wPc = "idle"
    /\ workflow \in Workflows
    /\ executionOrder = <<>>
    /\ wIdx = 1
    /\ nodeStatus = <<>>
    /\ wResult = "none"
    /\ page = [dom |-> EmptyDom, loginEnabled |-> TRUE]
    /\ cleared = TRUE

SpecWorkflow == WorkflowInit /\ [][WorkflowNext]_vars

(***************************************************************************)
(* learnFromAttempt called any number of times: the rates are bounded, so  *)
(* the calls need no bound; learnCalls counts them up to MaxLearnCalls.    *)
(***************************************************************************)
\* the lowest-rated type, an image variant, and a type without a rate
LongRunTypes == {"custom-captcha", "hcaptcha-image", "unknown"}

\* a caller awaits learnFromAttempt(captchaType, success, timeSpent)
LearnRepeatedly ==
    /\ hPc = "idle"
    /\ \E type \in LongRunTypes, success \in BOOLEAN :
          successRates' = learnFromAttempt(successRates, type, success)
    /\ learnCalls' = IF learnCalls < MaxLearnCalls THEN learnCalls + 1 ELSE learnCalls
    /\ ratesTouched' = TRUE
    /\ UNCHANGED <<classifyCalls, pageMutated>>
    /\ UNCHANGED <<hPc, now, page, captchaType, lastClassified, startTime, attempt,
                   solver, dispatchCount, lastOutcome, cleared, manualStart, hResult,
                   afterAttempt>>
    /\ UNCHANGED <<xvars, mvars, ivars>>

LearnInit ==
    /\ MatcherIdle
    /\ HandlerIdle
    /\ ImageIdle
    /\ ClassifierIdle
    /\ DetectorsIdle /\ PointerIdle /\ SliderIdle /\ WorkflowIdle
    /\ page = [dom |-> EmptyDom, loginEnabled |-> FALSE]
    /\ cleared = FALSE

SpecLearn == LearnInit /\ [][LearnRepeatedly]_vars

(***************************************************************************)
(* Properties of findBestMatch.  The labels of a response are described    *)
(* here by position, independently of the matcher above.                   *)
(***************************************************************************)
Parsed == mPc = "done" /\ mResult.error # "transport"

NumCandidates == Len(elements)

\* the maximal digit run that starts at j
RunEnd(text, j) ==
    CHOOSE e \in j..Len(text) :
        /\ \A m \in j..e : IsDigit(text[m])
        /\ e = Len(text) \/ ~IsDigit(text[e + 1])

RunValue(text, j) == parseInt(SubSeq(text, j, RunEnd(text, j)))

\* label lit stands at i, followed by optional white space and a number at j
LabelNumberAt(text, i, lit, j) ==
    /\ LiteralAt(text, i, lit)
    /\ j \in (i + Len(lit))..Len(text)
    /\ \A m \in (i + Len(lit))..(j - 1) : IsSpace(text[m])
    /\ IsDigit(text[j])

LabelPositions(text, lit) ==
    {i \in 1..Len(text) : \E j \in 1..Len(text) : LabelNumberAt(text, i, lit, j)}

\* the number carried by the label at i
LabelValue(text, i, lit) ==
    RunValue(text, CHOOSE j \in 1..Len(text) : LabelNumberAt(text, i, lit, j))

Min(S) == CHOOSE x \in S : \A y \in S : x <= y

IndexLit == <<"i","n","d","e","x",":">>
ElementLit == <<"e","l","e","m","e","n","t">>

\* the response contains `Index: k`
ContainsIndex(text, k) ==
    \E i \in LabelPositions(text, IndexLit) : LabelValue(text, i, IndexLit) = k

Returns(k) ==
    /\ mResult.status = "ok"
    /\ mResult.index = k
    /\ mResult.element = elements[k + 1]

Fails == mResult.status = "error" /\ mResult.element = "none" /\ mResult.index = -1

\* C7 as stated: every response that contains `Index: k` with 0 <= k < n
\* makes findBestMatch return index k and the candidate at position k.
C7_AnyIndexLabelReturned ==
    Parsed =>
        \A k \in 0..(NumCandidates - 1) : ContainsIndex(response, k) => Returns(k)

\* C7 amended: when the leftmost `Index: N` label of the response carries k
\* with 0 <= k < n, findBestMatch returns index k and the candidate at
\* position k.
C7_FirstIndexLabelReturned ==
    (Parsed /\ LabelPositions(response, IndexLit) # {}) =>
        LET k == LabelValue(response, Min(LabelPositions(response, IndexLit)), IndexLit)
        IN  k < NumCandidates => Returns(k)

\* C7 witness: an in-range Index label that is not the first number of the
\* response has been returned
C7_Witness ==
    /\ Parsed
    /\ NumCandidates = 3
    /\ LabelPositions(response, IndexLit) # {}
    /\ Min(LabelPositions(response, IndexLit)) > 1
    /\ IsDigit(response[1])
    /\ Returns(1)
    /\ RunValue(response, 1) # 1

\* the digit runs of a response, and their values with a leading minus sign
RunStarts(text) ==
    {i \in 1..Len(text) : IsDigit(text[i]) /\ (i = 1 \/ ~IsDigit(text[i - 1]))}

IsNegativeAt(text, i) ==
    /\ i > 1
    /\ text[i - 1] = "-"
    /\ (i = 2 \/ ~IsWordChar(text[i - 2]))

SignedValue(text, i) ==
    IF IsNegativeAt(text, i) THEN 0 - RunValue(text, i) ELSE RunValue(text, i)

\* C8 as stated: a response whose only number is negative or >= the
\* candidate count makes findBestMatch fail; the number is never
\* reinterpreted as an in-range index.
C8_OutOfRangeFails ==
    (Parsed /\ Cardinality(RunStarts(response)) = 1) =>
        LET v == SignedValue(response, CHOOSE i \in RunStarts(response) : TRUE)
        IN  (v < 0 \/ v >= NumCandidates) => Fails

\* the value the ordered patterns prescribe: Index label, then Element
\* label (which every `Choose element N` / `Select element N` contains),
\* then the first bare integer; -1 when nothing is extractable
BarePositions(text) ==
    {i \in RunStarts(text) :
        /\ i = 1 \/ ~IsWordChar(text[i - 1])
        /\ RunEnd(text, i) = Len(text) \/ ~IsWordChar(text[RunEnd(text, i) + 1])}

OrderedExtraction(text) ==
    IF LabelPositions(text, IndexLit) # {}
    THEN LabelValue(text, Min(LabelPositions(text, IndexLit)), IndexLit)
    ELSE IF LabelPositions(text, ElementLit) # {}
    THEN LabelValue(text, Min(LabelPositions(text, ElementLit)), ElementLit)
    ELSE IF BarePositions(text) # {}
    THEN RunValue(text, Min(BarePositions(text)))
    ELSE -1

\* C9: the index is the value of the first pattern, in the order Index,
\* Element (Choose element, Select element), bare integer, that matches,
\* wherever a later pattern would match; and with 3 candidates the response
\* "I think it's Element 1 because it says Post" yields index 1.
C9_PatternOrder ==
    Parsed =>
        /\ LET v == OrderedExtraction(response)
           IN  IF v \in 0..(NumCandidates - 1) THEN Returns(v) ELSE Fails
        /\ (response = ScenarioElement1 /\ NumCandidates = 3) => Returns(1)

\* C9 witness: an Element label stands before the Index label and carries
\* another value, and the Index label's value was returned
C9_Witness ==
    /\ Parsed
    /\ LabelPositions(response, IndexLit) # {}
    /\ LabelPositions(response, ElementLit) # {}
    /\ Min(LabelPositions(response, ElementLit)) < Min(LabelPositions(response, IndexLit))
    /\ LabelValue(response, Min(LabelPositions(response, ElementLit)), ElementLit) = 0
    /\ Returns(1)

\* C10: a response that contains no number makes findBestMatch throw and
\* return no element.
C10_NoNumberFails ==
    (Parsed /\ RunStarts(response) = {}) => Fails

\* C10 witness: the pure-prose response was parsed for a non-empty list
C10_Witness ==
    /\ Parsed
    /\ response = ScenarioProse
    /\ NumCandidates >= 1
    /\ Fails

\* C11: findBestMatch called with an empty candidate list fails before any
\* LLM request is made.
C11_EmptyFailsFast ==
    (mPc # "idle" /\ elements = <<>>) => (mPc = "done" /\ Fails /\ llmCalls = 0)

Returned == hPc = "done"

\* C1: handleCaptcha returns true only if no challenge was detected or the
\* blocking condition (the disabled login button) was cleared during the call.
C1_TrueOnlyIfCleared ==
    (Returned /\ hResult = "true") => (captchaType = "null" \/ cleared)

\* C2: handleCaptcha returns no later than automaticBudget + manualBudget
\* (2 minutes + 5 minutes) after it was called (the call is at time 0).
C2_ReturnsWithinBudgets ==
    Returned => now <= totalTimeout + manualTimeout

\* C3: the solver dispatched by an attempt is the one of the most recent
\* classification of the page.
C3_DispatchesLatestType ==
    (hPc = "solving" /\ lastClassified # "null") => solver = SolverFor(lastClassified)

C6_ExceptionIsFailedAttempt ==
    /\ hResult \in {"none", "true", "false"}
    /\ Returned => hResult \in {"true", "false"}
    /\ lastOutcome = "threw" => hPc \in {"loop", "solving", "manual", "done"}
    /\ (lastOutcome = "threw" /\ hPc = "loop") => (attempt = dispatchCount + 1 /\ hResult = "none")
    /\ (lastOutcome = "threw" /\ hPc = "done") => manualStart # -1

\* C6 witness: an attempt threw and the next attempt has been dispatched
C6_Witness ==
    /\ hPc = "solving"
    /\ lastOutcome = "threw"
    /\ dispatchCount >= 2

(***************************************************************************)
(* Properties of analyzeImageChallenge and of the image-grid solver.       *)
(***************************************************************************)
\* the vision response has been analysed
Analysed == iPc \in {"clicking", "verifying", "done"} /\ content # <<>>

\* C13 as stated: every index returned by analyzeImageChallenge is in
\* 0..totalTiles-1, and it is an index of the raw response: an out-of-range
\* index of the response (negative or >= totalTiles) is dropped, never
\* turned into another, in-range index.
C13_InRangeNeverRemapped ==
    Analysed =>
        \A p \in 1..Len(solution) :
            /\ solution[p] \in 0..(totalTiles - 1)
            /\ \E i \in RunStarts(content) : SignedValue(content, i) = solution[p]

\* C14: when the analysis yields no tile index the solver returns false,
\* having clicked no tile and not the verify button.
C14_EmptyAnalysisReturnsFalse ==
    (iPc \notin {"idle", "analyzing"} /\ solution = <<>>) =>
        (iPc = "done" /\ iResult = "false" /\ clicks = <<>>)

\* C14 witness: a response without any number was analysed and the solver
\* returned false
C14_Witness ==
    /\ iPc = "done"
    /\ content = ScenarioNoSquares
    /\ solution = <<>>
    /\ clicks = <<>>
    /\ iResult = "false"

ClickedTiles == {clicks[p].index : p \in {q \in 1..Len(clicks) : clicks[q].target = "tile"}}

SolutionTiles == {solution[p] : p \in 1..Len(solution)}

\* C15 as stated: the solver clicks exactly the tiles of the analysis result
\* and no other, and clicks verify only after all tile clicks.
C15_ExactlyResultTilesThenVerify ==
    /\ \A p \in 1..Len(clicks) : clicks[p].target = "verify" => p = Len(clicks)
    /\ ClickedTiles \subseteq SolutionTiles
    /\ (clicks # <<>> /\ clicks[Len(clicks)].target = "verify") =>
            ClickedTiles = SolutionTiles

\* C21 as stated: a network or authentication failure of the vision request
\* made while solving a challenge is surfaced as an error; the solver does not
\* end as an ordinary not-solved attempt with an empty tile set.
C21_TransportFailureSurfaced ==
    (visionError /\ iPc = "done") => iResult \notin {"true", "false"}

\* C22 as stated: for a response that is a JSON array (fenced or bare) the
\* analysis returns its in-range indices, and for every other response,
\* valid non-array JSON included, it returns the in-range integers found
\* anywhere in the text.
C22_ArrayElseAllIntegers ==
    Analysed =>
        LET cleaned == cleanedContent(content)
            parsed == JSONParse(cleaned)
        IN  IF parsed.ok /\ parsed.array
            THEN solution = validSolution(parsed.items, totalTiles)
            ELSE solution = extractedSolution(cleaned, totalTiles)

\* C28 as stated: in one solve each tile is clicked at most once; the tile
\* indices of the analysis behave as a set, so an index listed twice by the
\* model is not clicked a second time.
C28_EachTileClickedAtMostOnce ==
    \A p, q \in 1..Len(clicks) :
        (p # q /\ clicks[p].target = "tile" /\ clicks[q].target = "tile") =>
            clicks[p].index # clicks[q].index

(***************************************************************************)
(* Properties of detectCaptchaType.                                        *)
(***************************************************************************)
\* lastClassified is the answer for the page and the rates as they are
Fresh == classifyCalls >= 1 /\ ~pageMutated /\ ~ratesTouched

\* a reCAPTCHA checkbox element is present
CheckboxElement(dom) == dom.anchorIframe \/ dom.recaptchaWidget

\* the image-challenge iframe is present with zero offset dimensions
HiddenChallenge(dom) == dom.challengeIframe = "hidden"

\* the non-null answers of the eight detectors, in the order of the array
\* given to Promise.all
Detections(dom) ==
    SelectSeq(<< detectRecaptcha(dom), detectHCaptcha(dom), detectFunCaptcha(dom),
                 detectMathCaptcha(dom), detectTextCaptcha(dom), detectPuzzleCaptcha(dom),
                 detectCloudflareType(dom), detectCustomCaptcha(dom) >>,
              LAMBDA r : r # "null")

Weight(t) == IF t \in DOMAIN successRates THEN successRates[t] ELSE 500

SecondDetectSamePage ==
    /\ classifyCalls >= 1
    /\ classifyCalls' = classifyCalls + 1
    /\ ~pageMutated

C18_HighestWeightFirstDeclared ==
    Fresh =>
        LET D == Detections(page.dom)
        IN  IF Len(D) = 0 THEN lastClassified = "null"
            ELSE IF Len(D) = 1 THEN lastClassified = D[1]
            ELSE \E q \in 1..Len(D) :
                    /\ lastClassified = D[q]
                    /\ \A r \in 1..Len(D) : Weight(D[r]) <= Weight(D[q])
                    /\ \A r \in 1..(q - 1) : Weight(D[r]) < Weight(D[q])

\* C18 witness: text-captcha and puzzle-slider were both detected with equal
\* weight and the one detected first was returned
C18_Witness ==
    /\ Fresh
    /\ page.dom = TextSliderDom
    /\ Weight("text-captcha") = Weight("puzzle-slider")
    /\ lastClassified = "text-captcha"

\* C25: the detectors run concurrently by detectCaptchaType do not change
\* the page, and whatever the order in which the eight detectors complete,
\* the call returns the type it returns when they complete in the order of
\* their declaration.
C25_DetectionOrderIndependent ==
    /\ [](dPc = "done" => lastClassified = detectCaptchaType(page.dom, successRates))
    /\ [][page' = page]_vars

\* C25 witness: on a page where two detectors fire with equal weight the
\* later-declared one completed first, and the call has returned
C25_Witness ==
    /\ dPc = "done"
    /\ page.dom = TextSliderDom
    /\ lastClassified = "text-captcha"

(***************************************************************************)
(* Properties of learnFromAttempt.                                         *)
(***************************************************************************)
\* what one learnFromAttempt(t, success) does to the rates, as the claim has
\* it: +0.01 up to 0.99, -0.005 down to 0.10, no other rate touched
NudgedBy(t, success) ==
    \A u \in DOMAIN successRates :
        successRates'[u] =
            IF u # t THEN successRates[u]
            ELSE IF success
                 THEN (IF successRates[u] + 10 > 990 THEN 990 ELSE successRates[u] + 10)
                 ELSE (IF successRates[u] - 5 < 100 THEN 100 ELSE successRates[u] - 5)

\* C23: after any sequence of learnFromAttempt calls every success rate is
\* within [0.10, 0.99]; one call raises the rate of its type by 0.01 on a
\* success and lowers it by 0.005 on a failure, saturating at those bounds,
\* and leaves the rates of the other types as they are.
C23_RatesBoundedAndNudged ==
    /\ [](\A t \in DOMAIN successRates :
              successRates[t] >= 100 /\ successRates[t] <= 990)
    /\ [][\E t \in DOMAIN successRates \cup {"unknown"}, success \in BOOLEAN :
              NudgedBy(t, success)]_vars

\* C23 witness: a rate has been lowered to 0.10 and another raised to 0.99
C23_Witness ==
    /\ learnCalls >= 1
    /\ successRates["custom-captcha"] = 100
    /\ successRates["hcaptcha-image"] = 990

\* C24 as stated: in every reachable state of a handler, learnFromAttempt
\* updates included, the weight of a checkbox-style challenge is strictly
\* above the weight of its image variant.
C24_CheckboxAboveImageVariant ==
    /\ successRates["recaptcha-v2-checkbox"] > successRates["recaptcha-v2-image"]
    /\ successRates["hcaptcha"] > successRates["hcaptcha-image"]

(***************************************************************************)
(* Properties of the handler's state across handleCaptcha calls.           *)
(***************************************************************************)
\* C26: a handleCaptcha call, whatever its outcome and whichever solvers it
\* dispatches, leaves the success rates as they were, and a second call on
\* the same handler starts from the state the first started from.
C26_HandleCaptchaKeepsRates ==
    /\ successRates = InitialSuccessRates
    /\ hPc = "idle" =>
          /\ captchaType = "null" /\ lastClassified = "null"
          /\ attempt = 0 /\ dispatchCount = 0 /\ solver = "none"
          /\ lastOutcome = "none" /\ manualStart = -1 /\ hResult = "none"

\* C26 witness: a second call on the handler is in its second attempt,
\* the first having failed
C26_Witness ==
    /\ handleCalls = 1
    /\ hPc = "solving"
    /\ dispatchCount >= 2
    /\ lastOutcome = "failed"

(***************************************************************************)
(* Properties of the slider solver and of the pointer simulators.          *)
(***************************************************************************)
\* C27 as stated: without an AI key the slider solver tries the positions
\* 30, 50, 70, 80, 90 percent in that order, tries no further position once
\* the login button is enabled, and reports solved only if one of the
\* positions it tried enabled the button.
C27_SweepSolvedOnlyWhenCleared ==
    ~sliderEnv.aiKey =>
        /\ Len(swept) <= Len(positions)
        /\ \A p \in 1..Len(swept) : swept[p] = positions[p]
        /\ sPc = "sweeping" => ~isLoginButtonEnabled(page)
        /\ (sPc = "done" /\ sResult = "true") => isLoginButtonEnabled(page)

\* C29 as stated: a simulator presses the button before the interpolated
\* moves, moves to the exact target last and then releases, and it never
\* returns with the button still pressed, also when a pointer operation
\* fails midway.
C29_NeverReturnsPressed ==
    /\ \A p \in 1..Len(performed) :
          /\ performed[p] = "move" => \E q \in 1..(p - 1) : performed[q] = "down"
          /\ performed[p] = "up" =>
                (p > 1 /\ performed[p - 1] = "target" /\ p = Len(pointerOps(gesture)))
    /\ gPc = "returned" => ~mouseDown

(***************************************************************************)
(* Properties of executeWorkflow.                                          *)
(***************************************************************************)
\* C30 as stated: executeWorkflow returns success = true only if every node
\* of the workflow was executed and reached status 'success', each node
\* being executed after all nodes with an edge into it; for any graph,
\* cyclic ones included, no node is skipped in a run reported as successful.
C30_SuccessMeansEveryNodeRan ==
    /\ wPc # "idle" =>
          \A p \in 1..Len(workflow.edges) :
              LET source == workflow.edges[p][1]
                  target == workflow.edges[p][2]
              IN  (/\ source \in DOMAIN nodeStatus
                   /\ target \in DOMAIN nodeStatus
                   /\ nodeStatus[target] # "pending") => nodeStatus[source] = "success"
    /\ (wPc = "done" /\ wResult = "true") =>
          \A id \in NodeSet(workflow.nodes) : nodeStatus[id] = "success"

(***************************************************************************)
(* Properties of the retry wait and of the manual fallback.                *)
(***************************************************************************)
\* C19 as stated: when an attempt has failed (its solver returned false) and
\* another attempt follows, the loop has waited the 25 s interval and has
\* re-classified the page between the two.
C19_WaitAndReclassifyBetweenAttempts ==
    (hPc = "solving" /\ dispatchCount >= 2 /\ lastOutcome = "failed") =>
        afterAttempt = Between(25, TRUE)

\* C20: manual fallback is entered only after 5 attempts or once more than
\* 2 minutes have passed since the first classification, never after an
\* attempt that reported solved; and no attempt starts once the 2 minutes
\* are exceeded.
C20_ManualOnlyWhenBudgetSpent ==
    /\ manualStart # -1 => (dispatchCount = 5 \/ manualStart - startTime > 120)
    /\ manualStart # -1 => lastOutcome # "solved"
    /\ lastOutcome = "solved" => (Returned /\ hResult = "true" /\ manualStart = -1)
    /\ hPc = "solving" => now - startTime <= 120

\* C20 witness: manual fallback was entered after fewer than 5 attempts,
\* the time budget being exceeded
C20_Witness ==
    /\ hPc = "manual"
    /\ dispatchCount < 5
    /\ manualStart - startTime > 120
    /\ lastOutcome = "failed"

====
